---- MODULE Spec2Model ----
(***************************************************************************)
(* The force-based layouts of canvasGraph (src/src/canvasGraph/layout.py): *)
(* OneStepForceBasedLayout (one step of the simulation) and                *)
(* ForceBasedLayout (the loop that repeats the step).                      *)
(*                                                                         *)
(* Numbers.  The program computes with Python floats.  Here a coordinate,  *)
(* a length or a force component is an integer counting 1/Scale of a       *)
(* canvas unit; widths and heights of vertices are even whole units.  A    *)
(* quotient is kept as a fraction until the value the code assigns is      *)
(* formed and is then rounded towards zero, so rounding is symmetric under *)
(* negation as it is for floats.  A division by zero is an exception       *)
(* (ZeroDivisionError), a missing dictionary key is an exception           *)
(* (KeyError).                                                             *)
(***************************************************************************)
EXTENDS Integers, Sequences, FiniteSets, TLC

\* ------------------------------------------------------------------ bounds
\* Number of fixed-point steps per canvas unit.
Scale == 10
\* Largest iteration budget (iterationNumber) the caller configures.
MaxIterations == 2

\* ------------------------------------------------- configuration constants
minSpringLength == 60
\* 0.1 as the fraction 1/10
springStiffness == <<1, 10>>
electricalRepulsion == 500
maxForce == 10
DefaultIterationNumber == 1000
\* 0.001 as the fraction 1/1000
DefaultForceThreshold == <<1, 1000>>

\* ------------------------------------------------------------ input ranges
Vertices == {"a", "b", "c"}
\* The mappings the caller passes: positions are in whole canvas units here
\* and converted by ToFixed.  Forces depend on differences of coordinates
\* only, so vertex a is placed at the origin.
Candidates ==
  [a |-> {<<0, 0>>},
   b |-> {<<0, 0>>, <<20, 0>>, <<0, 30>>, <<50, 40>>, <<80, 0>>},
   c |-> {<<50, 40>>, <<0, 30>>}]
VertexSets == {{}, {"a"}, {"a", "b"}, {"a", "b", "c"}}
\* (width, height) of each vertex as the canvas reports it
DimensionChoices ==
  {[v \in Vertices |-> <<20, 20>>],
   [a |-> <<20, 20>>, b |-> <<40, 30>>, c |-> <<20, 40>>]}
\* An edge is (origin, end); it may name a vertex that has no position.
EdgeUniverse == Vertices \X Vertices
EdgeSets == {{}} \cup {{e} : e \in EdgeUniverse}
\* forceThreshold values the caller configures (fractions num/den)
Thresholds == {DefaultForceThreshold, <<30, 1>>}

VARIABLES
  vertices,        \* the caller's dictionary vertex -> (x, y)
  dims,            \* vertex -> (width, height): vertex.dimensions(canvas)
  edges,           \* the caller's edges
  fixed,           \* the caller's fixed set
  iterationNumber, \* self.iterationNumber
  forceThreshold,  \* self.forceThreshold (fraction)
  pc,              \* "idle", "forces", "move", "done", "error"
  i,               \* number of steps completed by the loop of the driver
  np,              \* driver: np, the mapping given to the step in progress
  sf,              \* driver: sf, the mean force the last step returned
  forces,          \* step: forces (vertex -> (fx, fy)), filled vertex by vertex
  newPositions,    \* step: newPositions, filled vertex by vertex
  sumForces,       \* step: sumForces
  err,             \* the exception that ended the call, or "none"
  calls,           \* history: one record per completed step
  \* ObservableSet (util.py)
  members,         \* the elements of the set
  observers,       \* self._observers, a list
  updates,         \* the update(self) calls of the last operation, in order:
                   \* (observer, elements of the set it was given)
  lastCall,        \* the last operation: its name and the elements before it
  \* CanvasToolTip (util.py)
  tipwindow,       \* self._tipwindow is a window (TRUE) or None (FALSE)
  timerId,         \* self._id: an identifier returned by after, or NoId
  pending,         \* the after callbacks Tk holds: scheduled, not yet run
                   \* and not cancelled
  afterCount,      \* number of identifiers after has returned so far
  tipState,        \* self._opts['state']
  sinceLeave       \* history: "none" when no leave or button press was
                   \* handled since the last enter, else "window" when one
                   \* of them destroyed a window, else "timer" when one of
                   \* them cancelled a timer, else "idle"

layoutVars ==
  <<vertices, dims, edges, fixed, iterationNumber, forceThreshold, pc, i,
    np, sf, forces, newPositions, sumForces, err, calls>>
setVars == <<members, observers, updates, lastCall>>
tipVars == <<tipwindow, timerId, pending, afterCount, tipState, sinceLeave>>
vars == <<layoutVars, setVars, tipVars>>

\* self._id = None
NoId == 0

\* ObservableSet(): an empty set without observers (util.py __init__)
SetInit ==
  /\ members = {}
  /\ observers = <<>>
  /\ updates = <<>>
  /\ lastCall = [name |-> "__init__", old |-> {}, raised |-> FALSE]

\* CanvasToolTip.__init__: no window, no timer, state 'normal'
TipInit ==
  /\ tipwindow = FALSE
  /\ timerId = NoId
  /\ pending = {}
  /\ afterCount = 0
  /\ tipState = "normal"
  /\ sinceLeave = "none"

\* ------------------------------------------------------------- arithmetic
Abs(x) == IF x < 0 THEN -x ELSE x
Max2(x, y) == IF x >= y THEN x ELSE y
Min2(x, y) == IF x <= y THEN x ELSE y

\* n / d rounded towards zero (d > 0)
Quot(n, d) == IF n >= 0 THEN n \div d ELSE -((-n) \div d)

RECURSIVE SqrtSearch(_, _, _)
SqrtSearch(n, lo, hi) ==
  IF lo >= hi THEN lo
  ELSE LET mid == (lo + hi + 1) \div 2
       IN  IF mid * mid <= n THEN SqrtSearch(n, mid, hi)
           ELSE SqrtSearch(n, lo, mid - 1)

\* math.sqrt on a non-negative fixed-point square: the integer square root
Sqrt(n) == SqrtSearch(n, 0, Min2(n, 46340))

EmptyMap == [v \in {} |-> <<0, 0>>]

ToFixed(p) == <<p[1] * Scale, p[2] * Scale>>

\* ---------------------------------------------------------------- geometry
\* Each helper below takes the values it works on as parameters; the comment
\* names the lines of layout.py it stands for.

\* vertex.dimensions(canvas)
dimensions(vertex) == dims[vertex]

\* av = xv1 - xvc and bv = yv1 - yvc: half the width and half the height
HalfExtents(vertex) ==
  <<dimensions(vertex)[1] \div 2, dimensions(vertex)[2] \div 2>>

\* m = abs((yoc - yvc) / (xoc - xvc)), kept as the fraction m[2]/m[1] of the
\* two absolute differences, both divided by the same number so that the
\* larger one has at most three to four digits (the precision of the slope).
SlopeOf(ax, ay, k) == <<ax \div k, ay \div k>>
Slope(vc, oc) ==
  SlopeOf(Abs(oc[1] - vc[1]), Abs(oc[2] - vc[2]),
          (Max2(Abs(oc[1] - vc[1]), Abs(oc[2] - vc[2])) \div 1024) + 1)

\* (a * b) / math.sqrt(a*a * m*m + b*b) and (a * b * m) / math.sqrt(...)
\* with numerator and denominator multiplied by m[1]; r is the square root.
\* a and b are in whole units, the result is in fixed-point steps.
OffsetsBy(a, b, m, r) ==
  <<(a * b * m[1] * Scale) \div r, (a * b * m[2] * Scale) \div r>>
Offsets(e, m) ==
  OffsetsBy(e[1], e[2], m,
            Sqrt(e[1] * e[1] * m[2] * m[2] + e[2] * e[2] * m[1] * m[1]))

\* the signs "dvx *= -1 if xoc < xvc else 1" ... and the returned tuple
\* (xvc + dvx, yvc + dvy, xoc + dox, yoc + doy)
Place(vc, oc, dv, do) ==
  <<vc[1] + dv[1] * (IF oc[1] < vc[1] THEN -1 ELSE 1),
    vc[2] + dv[2] * (IF oc[2] < vc[2] THEN -1 ELSE 1),
    oc[1] + do[1] * (IF oc[1] > vc[1] THEN -1 ELSE 1),
    oc[2] + do[2] * (IF oc[2] > vc[2] THEN -1 ELSE 1)>>

\* the two branches of "if xoc != xvc"
BoundaryPoints(vc, oc, ve, oe) ==
  IF oc[1] # vc[1]
  THEN Place(vc, oc, Offsets(ve, Slope(vc, oc)), Offsets(oe, Slope(vc, oc)))
  ELSE Place(vc, oc, <<0, ve[2] * Scale>>, <<0, oe[2] * Scale>>)

\* Variant of DistanceVectorFrom with a slip: the extents of vertex are used
\* for other too (ow, oh read from vertex).
DistanceVectorFromOwnExtents(positions, vertex, other) ==
  BoundaryPoints(positions[vertex], positions[other],
                 HalfExtents(vertex), HalfExtents(vertex))

\* _distance_vector_from: (x, y) of the boundary point of vertex facing
\* other, then (x, y) of the boundary point of other facing vertex
DistanceVectorFrom(positions, vertex, other) ==
  BoundaryPoints(positions[vertex], positions[other],
                 HalfExtents(vertex), HalfExtents(other))

\* ------------------------------------------------------------------ forces
\* max(min(force, maxForce), -maxForce) on the fraction num/den (den > 0)
Clamp(num, den) ==
  IF num > maxForce * den THEN <<maxForce, 1>>
  ELSE IF num < -maxForce * den THEN <<-maxForce, 1>>
  ELSE <<num, den>>

\* fx = force * dx and fy = force * dy for the fraction force
Times(force, d) ==
  <<Quot(force[1] * d[1], force[2]), Quot(force[1] * d[2], force[2])>>

\* dx, dy = dx1 - dx0, dy1 - dy0 without the inversion on overlap
NotInverted(vc, oc, d) == <<d[3] - d[1], d[4] - d[2]>>

\* "Overlap: when overlapping inverse bounding box", then
\* dx, dy = dx1 - dx0, dy1 - dy0
Inverted(vc, oc, d) ==
  <<IF (oc[1] - vc[1]) * (d[3] - d[1]) < 0 THEN d[1] - d[3] ELSE d[3] - d[1],
    IF (oc[2] - vc[2]) * (d[4] - d[2]) < 0 THEN d[2] - d[4] ELSE d[4] - d[2]>>

\* the boundary-to-boundary vector (dx, dy) the repulsion uses
CoulombVector(positions, vertex, other) ==
  Inverted(positions[vertex], positions[other],
           DistanceVectorFrom(positions, vertex, other))

\* distance*distance (the square of math.sqrt(dx*dx + dy*dy))
Distance2(d) == d[1] * d[1] + d[2] * d[2]

\* -self.electricalRepulsion / (distance*distance) divides by zero
CoulombRaises(positions, vertex, other) ==
  Distance2(CoulombVector(positions, vertex, other)) = 0

\* force = -self.electricalRepulsion / (distance*distance), clamped, times
\* (dx, dy); distance is in canvas units, hence Scale * Scale
RepulsionAlong(d) ==
  Times(Clamp(-electricalRepulsion * Scale * Scale, Distance2(d)), d)

\* _coulomb_repulsion: the force of other on vertex (no division by zero)
CoulombRepulsion(positions, vertex, other) ==
  RepulsionAlong(CoulombVector(positions, vertex, other))

\* dx, dy = dx1 - dx0, dy1 - dy0 of the spring
Difference(d) == <<d[3] - d[1], d[4] - d[2]>>

\* "Overlap: when overlapping, ignore the force"
Overlap(vc, oc, d) ==
  \/ (oc[1] - vc[1]) * (d[3] - d[1]) < 0
  \/ (oc[2] - vc[2]) * (d[4] - d[2]) < 0

\* math.sqrt(dx*dx + dy*dy)
Norm(f) == Sqrt(f[1] * f[1] + f[2] * f[2])

\* the spring length without the minimum: centre distance less boundary
\* distance
SpringLengthNoMinimum(centres, distance) == centres - distance

\* length = max(math.sqrt(dcx*dcx + dcy*dcy) - distance, minSpringLength)
SpringLength(centres, distance) ==
  Max2(centres - distance, minSpringLength * Scale)

\* force = -self.springStiffness * (length - distance) / distance, clamped,
\* times (dx, dy)
SpringAlong(d, distance, length) ==
  Times(Clamp(-springStiffness[1] * (length - distance),
              springStiffness[2] * distance), d)
SpringAt(d, distance, centres) ==
  SpringAlong(d, distance, SpringLength(centres, distance))
SpringBetween(vc, oc, d) ==
  IF Overlap(vc, oc, d) THEN <<0, 0>>
  ELSE SpringAt(Difference(d), Norm(Difference(d)),
                Norm(<<oc[1] - vc[1], oc[2] - vc[2]>>))

\* _hooke_attraction: the force of the spring on vertex (no exception)
HookeAttraction(positions, vertex, other) ==
  SpringBetween(positions[vertex], positions[other],
                DistanceVectorFrom(positions, vertex, other))

\* the spring divides by zero: no overlap and distance = 0
SpringRaises(vc, oc, d) ==
  ~Overlap(vc, oc, d) /\ Norm(Difference(d)) = 0

\* how _hooke_attraction ends: positions[other] is missing (KeyError),
\* (length - distance) / distance divides by zero, or it returns ("none")
HookeError(positions, vertex, other) ==
  IF other \notin DOMAIN positions THEN "KeyError"
  ELSE IF SpringRaises(positions[vertex], positions[other],
                       DistanceVectorFrom(positions, vertex, other))
       THEN "ZeroDivisionError"
       ELSE "none"

\* ------------------------------------------- OneStepForceBasedLayout.apply
Plus(f, g) == <<f[1] + g[1], f[2] + g[2]>>

RECURSIVE RepulsionSum(_, _, _)
\* fx += cfx, fy += cfy over the vertices v in S
RepulsionSum(positions, vertex, S) ==
  IF S = {} THEN <<0, 0>>
  ELSE LET v == CHOOSE x \in S : TRUE
       IN  Plus(CoulombRepulsion(positions, vertex, v),
                RepulsionSum(positions, vertex, S \ {v}))

\* the edges with edge.origin == vertex or edge.end == vertex
Incident(vertex) == {e \in edges : e[1] = vertex \/ e[2] = vertex}

\* other = edge.end if edge.origin == vertex else edge.origin
OtherEnd(e, vertex) == IF e[1] = vertex THEN e[2] ELSE e[1]

\* the spring force on vertex for one incident edge
EdgeAttraction(positions, vertex, e) ==
  HookeAttraction(positions, vertex, OtherEnd(e, vertex))

RECURSIVE SpringSum(_, _, _)
\* fx += hfx, fy += hfy over the edges in S
SpringSum(positions, vertex, S) ==
  IF S = {} THEN <<0, 0>>
  ELSE LET e == CHOOSE x \in S : TRUE
       IN  Plus(EdgeAttraction(positions, vertex, e),
                SpringSum(positions, vertex, S \ {e}))

\* the repulsion loop of vertex divides by zero for some other vertex
RepulsionRaises(positions, vertex) ==
  \E v \in DOMAIN positions \ {vertex} : CoulombRaises(positions, vertex, v)

\* the exceptions the spring loop of vertex can end with
SpringErrors(positions, vertex) ==
  {HookeError(positions, vertex, OtherEnd(e, vertex)) : e \in Incident(vertex)}
    \ {"none"}

\* forces[vertex]: repulsion of every other vertex plus the springs
NetForce(positions, vertex) ==
  Plus(RepulsionSum(positions, vertex, DOMAIN positions \ {vertex}),
       SpringSum(positions, vertex, Incident(vertex)))

\* Variant of NewPosition with a slip: the test of fixed is left out.
NewPositionMoved(vertex, p, f) == <<p[1] + f[1], p[2] + f[2]>>

\* newPositions[vertex]: moved by the force unless the vertex is fixed
NewPosition(vertex, p, f) ==
  IF vertex \notin fixed THEN <<p[1] + f[1], p[2] + f[2]>> ELSE p

\* sumForces/len(newPositions) if len(newPositions) > 0 else 0
MeanForce(total, positions) ==
  IF Cardinality(DOMAIN positions) > 0
  THEN total \div Cardinality(DOMAIN positions)
  ELSE 0

Extend(f, v, x) == [w \in DOMAIN f \cup {v} |-> IF w = v THEN x ELSE f[w]]

\* where a step that is given positions starts: the loops over an empty
\* dictionary do nothing
StepStart(positions) == IF DOMAIN positions = {} THEN "move" ELSE "forces"

\* the first loop has come to vertex: its force is not computed yet
InFirstLoop(vertex) ==
  pc = "forces" /\ vertex \in DOMAIN np \ DOMAIN forces

\* the second loop has come to vertex: it has no new position yet
InSecondLoop(vertex) ==
  pc = "move" /\ vertex \in DOMAIN np \ DOMAIN newPositions

\* both loops are over: the step is at its return statement
AtReturn == pc = "move" /\ DOMAIN newPositions = DOMAIN np

\* Variant of ComputeForce with a slip: the vertex is moved as soon as its
\* force is known, in the dictionary the step was given (which is the
\* caller's dictionary in the first step).
ComputeForceInPlace(vertex) ==
  /\ InFirstLoop(vertex)
  /\ IF RepulsionRaises(np, vertex)
     THEN /\ pc' = "error"
          /\ err' = "ZeroDivisionError"
          /\ UNCHANGED <<forces, np, vertices>>
     ELSE IF SpringErrors(np, vertex) # {}
     THEN /\ pc' = "error"
          /\ err' \in SpringErrors(np, vertex)
          /\ UNCHANGED <<forces, np, vertices>>
     ELSE /\ forces' = Extend(forces, vertex, NetForce(np, vertex))
          /\ np' = [np EXCEPT ![vertex] =
                      NewPosition(vertex, np[vertex], NetForce(np, vertex))]
          /\ vertices' = IF i = 0 THEN np' ELSE vertices
          /\ pc' = IF DOMAIN forces' = DOMAIN np THEN "move" ELSE "forces"
          /\ UNCHANGED err
  /\ UNCHANGED <<dims, edges, fixed, iterationNumber, forceThreshold,
                 i, sf, newPositions, sumForces, calls>>
  /\ UNCHANGED <<setVars, tipVars>>

\* One iteration of "for vertex in positions" of the first loop.
ComputeForce(vertex) ==
  /\ InFirstLoop(vertex)
  /\ IF RepulsionRaises(np, vertex)
     THEN /\ pc' = "error"
          /\ err' = "ZeroDivisionError"
          /\ UNCHANGED forces
     ELSE IF SpringErrors(np, vertex) # {}
     THEN /\ pc' = "error"
          /\ err' \in SpringErrors(np, vertex)
          /\ UNCHANGED forces
     ELSE /\ forces' = Extend(forces, vertex, NetForce(np, vertex))
          /\ pc' = IF DOMAIN forces' = DOMAIN np THEN "move" ELSE "forces"
          /\ UNCHANGED err
  /\ UNCHANGED <<vertices, dims, edges, fixed, iterationNumber, forceThreshold,
                 i, np, sf, newPositions, sumForces, calls>>
  /\ UNCHANGED <<setVars, tipVars>>

\* One iteration of "for vertex in positions" of the second loop.
Move(vertex) ==
  /\ InSecondLoop(vertex)
  /\ newPositions' =
       Extend(newPositions, vertex, NewPosition(vertex, np[vertex], forces[vertex]))
  /\ sumForces' = sumForces + Norm(forces[vertex])
  /\ UNCHANGED <<vertices, dims, edges, fixed, iterationNumber, forceThreshold,
                 pc, i, np, sf, forces, err, calls>>
  /\ UNCHANGED <<setVars, tipVars>>

\* ------------------------------------------------- ForceBasedLayout.apply
\* the test of the break with the comparison turned round
ConvergedWhenLarge(mean) ==
  mean * forceThreshold[2] > forceThreshold[1] * Scale

\* sf < self.forceThreshold
Converged(mean) == mean * forceThreshold[2] < forceThreshold[1] * Scale

\* Variant of LoopContinues with a slip: one pass too many.
LoopContinuesOffByOne(n) == n <= iterationNumber

\* range(self.iterationNumber) has a value left after n steps
LoopContinues(n) == n < iterationNumber

\* Variant of NextInput with a slip: every step is given the initial mapping
\* (super().apply(canvas, vertices, ...)).
NextInputInitial(initial, output) == initial

\* the mapping the next call of the step receives
NextInput(initial, output) == output

\* np = vertices, and the first pass of the loop begins (or the loop is empty)
Apply ==
  /\ pc = "idle"
  /\ np' = vertices
  /\ i' = 0
  /\ pc' = IF LoopContinues(0) THEN StepStart(vertices) ELSE "done"
  /\ UNCHANGED <<vertices, dims, edges, fixed, iterationNumber, forceThreshold,
                 sf, forces, newPositions, sumForces, err, calls>>
  /\ UNCHANGED <<setVars, tipVars>>

\* The step returns (newPositions, mean); the driver assigns np, sf, tests
\* sf < self.forceThreshold and goes on or returns np.
StepReturn ==
  /\ AtReturn
  /\ LET mean == MeanForce(sumForces, newPositions)
     IN  /\ sf' = mean
         /\ np' = NextInput(vertices, newPositions)
         /\ i' = i + 1
         /\ calls' = Append(calls, [input |-> np, output |-> newPositions,
                                    mean |-> mean])
         /\ pc' = IF ~Converged(mean) /\ LoopContinues(i + 1)
                  THEN StepStart(np') ELSE "done"
  /\ forces' = EmptyMap
  /\ newPositions' = EmptyMap
  /\ sumForces' = 0
  /\ UNCHANGED <<vertices, dims, edges, fixed, iterationNumber, forceThreshold,
                 err>>
  /\ UNCHANGED <<setVars, tipVars>>

Init ==
  /\ \E S \in VertexSets :
       /\ vertices \in {[v \in S |-> ToFixed(p[v])] :
                          p \in [S -> UNION {Candidates[v] : v \in S}]}
       /\ \A v \in S : \E q \in Candidates[v] : vertices[v] = ToFixed(q)
       /\ fixed \in {{}, {"a"} \cap S, S}
  /\ dims \in DimensionChoices
  /\ edges \in EdgeSets
  /\ iterationNumber \in 0..MaxIterations
  /\ forceThreshold \in Thresholds
  /\ pc = "idle"
  /\ i = 0
  /\ np = EmptyMap
  /\ sf = 0
  /\ forces = EmptyMap
  /\ newPositions = EmptyMap
  /\ sumForces = 0
  /\ err = "none"
  /\ calls = <<>>
  /\ SetInit
  /\ TipInit

Next ==
  \/ Apply
  \/ \E vertex \in Vertices : ComputeForce(vertex)
  \/ \E vertex \in Vertices : Move(vertex)
  \/ StepReturn

Spec == Init /\ [][Next]_vars
\* ================================================================== claims
\* the step in progress (or the driver, once it has returned) holds a mapping
Running == pc # "idle"

\* vertex can be given a force in positions without an exception
NoRaise(positions, vertex) ==
  ~RepulsionRaises(positions, vertex) /\ SpringErrors(positions, vertex) = {}

\* C1: a vertex of fixed has, in the mapping a step returns, the position it
\* had in the mapping the step was given, and in the mapping the driver
\* holds after any number of steps the position the caller gave it.
FixedNodeInvariance ==
  /\ \A v \in fixed \cap DOMAIN newPositions : newPositions[v] = np[v]
  /\ \A k \in 1..Len(calls) :
       \A v \in fixed \cap DOMAIN calls[k].input :
         calls[k].output[v] = calls[k].input[v]
  /\ Running => \A v \in fixed \cap DOMAIN vertices : np[v] = vertices[v]

\* C1 witness: two steps are done, a fixed vertex was pushed by a non-zero
\* force in the first one, and some other vertex has moved.
FixedNodeWitness ==
  /\ pc = "done"
  /\ i = 2
  /\ \E v \in fixed \cap DOMAIN vertices :
       /\ NetForce(vertices, v) # <<0, 0>>
       /\ np[v] = vertices[v]
  /\ \E w \in DOMAIN vertices : np[w] # vertices[w]

RECURSIVE NormSum(_, _)
\* the sum of |netForce| over the vertices in S
NormSum(positions, S) ==
  IF S = {} THEN 0
  ELSE LET v == CHOOSE x \in S : TRUE
       IN  Norm(NetForce(positions, v)) + NormSum(positions, S \ {v})

\* the mean of |netForce| over the vertices that are not fixed, 0 if none
MovableMean(positions) ==
  IF DOMAIN positions \ fixed = {} THEN 0
  ELSE NormSum(positions, DOMAIN positions \ fixed)
         \div Cardinality(DOMAIN positions \ fixed)

\* C2: the mean force a step returns is the mean of |netForce| over the
\* vertices that are not fixed, and 0 when every vertex is fixed.
MeanOverMovable ==
  \A k \in 1..Len(calls) : calls[k].mean = MovableMean(calls[k].input)

\* C3: for two vertices with distinct centres at a positive boundary
\* distance, neither the repulsion vector nor the spring vector is longer
\* than maxForce.
ForceCap ==
  Running =>
    \A v \in DOMAIN np : \A o \in DOMAIN np \ {v} :
      (np[v] # np[o] /\ ~CoulombRaises(np, v, o)) =>
        /\ Distance2(CoulombRepulsion(np, v, o))
             <= maxForce * Scale * maxForce * Scale
        /\ HookeError(np, v, o) = "none" =>
             Distance2(HookeAttraction(np, v, o))
               <= maxForce * Scale * maxForce * Scale

\* What is left to do of a call: the passes of the loop not yet completed,
\* each worth more than the iterations of the two loops of one step.
Rank ==
  IF pc \in {"done", "error"} THEN 0
  ELSE IF pc = "idle"
       THEN (iterationNumber + 1) * (2 * Cardinality(Vertices) + 2)
       ELSE (iterationNumber - i) * (2 * Cardinality(Vertices) + 2)
              - Cardinality(DOMAIN forces) - Cardinality(DOMAIN newPositions)

\* C4: the driver completes at most iterationNumber steps and always ends:
\* every step of the call keeps the count of completed steps within the
\* budget and lowers Rank, which is never negative, and the call is never
\* stuck before it has returned or raised (one of the positions of the code
\* is the current one).
DriverTerminates ==
  /\ [][/\ i' <= iterationNumber
        /\ Len(calls') = i'
        /\ Rank' < Rank
        /\ Rank' >= 0]_vars
  /\ [](\/ pc \in {"done", "error"}
        \/ pc = "idle"
        \/ \E vertex \in Vertices : InFirstLoop(vertex)
        \/ \E vertex \in Vertices : InSecondLoop(vertex)
        \/ AtReturn)

\* C4 witness: the budget is exhausted without the mean force having dropped
\* below the threshold.
ExhaustedWitness ==
  /\ pc = "done"
  /\ iterationNumber = MaxIterations
  /\ i = iterationNumber
  /\ ~Converged(sf)
  /\ np # vertices

\* C5: the first step is given the caller's mapping, every later step the
\* output of the step before it, and only if that step's mean force was not
\* below the threshold; the driver returns the output of the last step.
StepChaining ==
  /\ \A k \in 1..Len(calls) :
       /\ calls[k].input = IF k = 1 THEN vertices ELSE calls[k - 1].output
       /\ k > 1 => ~Converged(calls[k - 1].mean)
  /\ (pc \in {"forces", "move"} /\ calls # <<>>) =>
       /\ ~Converged(calls[Len(calls)].mean)
       /\ np = calls[Len(calls)].output
  /\ pc = "done" =>
       np = IF calls = <<>> THEN vertices ELSE calls[Len(calls)].output

\* C5 witness: the driver returned after one step of a larger budget because
\* the mean force was below the threshold, and the step moved a vertex.
ConvergedWitness ==
  /\ pc = "done"
  /\ Len(calls) = 1
  /\ iterationNumber > 1
  /\ Converged(sf)
  /\ np # vertices
  /\ np = calls[1].output
\* some edge names, as origin or as end, a vertex that has no position
Malformed ==
  \E e \in edges : e[1] \notin DOMAIN vertices \/ e[2] \notin DOMAIN vertices

\* C6: when an edge names a vertex absent from the mapping, the call (on a
\* non-empty mapping, of a driver that is to run at least one step) never
\* returns a mapping and no step completes: it ends with an exception.
MalformedInputRejected ==
  (Malformed /\ DOMAIN vertices # {} /\ iterationNumber > 0)
    => (pc # "done" /\ calls = <<>>)

\* the centres in positions are pairwise distinct
DistinctCentres(positions) ==
  \A v \in DOMAIN positions : \A o \in DOMAIN positions \ {v} :
    positions[v] # positions[o]

\* every edge joins two different vertices that both have a position
ProperEdges(positions) ==
  \A e \in edges :
    e[1] \in DOMAIN positions /\ e[2] \in DOMAIN positions /\ e[1] # e[2]

\* C7: a step given pairwise distinct centres, positive extents and edges
\* between vertices of the mapping never ends with an exception, also when
\* shapes overlap or touch.
StepTotal ==
  (Running /\ DistinctCentres(np) /\ ProperEdges(np)) => pc # "error"

\* C8: with a fixed at (0,0), b free at (0,0) too and an edge between them,
\* the first step does not end with an exception, whatever the shapes.
CoincidentCentresFinite ==
  (/\ DOMAIN vertices = {"a", "b"}
   /\ vertices["a"] = <<0, 0>>
   /\ vertices["b"] = <<0, 0>>
   /\ fixed = {"a"}
   /\ edges \in {{<<"a", "b">>}, {<<"b", "a">>}}
   /\ iterationNumber > 0)
  => ~(pc = "error" /\ i = 0)

\* C9: during a step the caller's mapping and the mapping the step was given
\* do not change, every force recorded is the net force of the vertex in the
\* mapping the step was given, and every new position is the given position
\* moved by that force (or kept, for a fixed vertex): neither depends on the
\* vertices visited before.
SnapshotConsistency ==
  [][/\ vertices' = vertices
     /\ (pc \in {"forces", "move"} /\ i' = i) => np' = np
     /\ \A v \in DOMAIN forces' :
          NoRaise(np, v) /\ forces'[v] = NetForce(np, v)
     /\ \A v \in DOMAIN newPositions' :
          newPositions'[v] = NewPosition(v, np[v], forces[v])]_vars

\* C9 witness: in the second step of a run with three vertices, one vertex
\* has its new position, different from the given one, while another vertex
\* with a non-zero force has not been moved yet.
SnapshotWitness ==
  /\ pc = "move"
  /\ i = 1
  /\ Cardinality(DOMAIN np) = 3
  /\ \E v \in DOMAIN newPositions : newPositions[v] # np[v]
  /\ \E w \in DOMAIN np \ DOMAIN newPositions : forces[w] # <<0, 0>>

\* the two vertices do not overlap on any axis and are not in contact
Apart(positions, v, o) ==
  /\ ~CoulombRaises(positions, v, o)
  /\ ~Overlap(positions[v], positions[o], DistanceVectorFrom(positions, v, o))

Neg(f) == <<-f[1], -f[2]>>

\* C10: for two distinct vertices whose shapes do not overlap, the repulsion
\* on the first due to the second is the opposite of the repulsion on the
\* second due to the first.
RepulsionSymmetry ==
  Running =>
    \A v \in DOMAIN np : \A o \in DOMAIN np \ {v} :
      Apart(np, v, o) =>
        CoulombRepulsion(np, v, o) = Neg(CoulombRepulsion(np, o, v))

\* C10 witness: after a step, two vertices of different shapes that do not
\* overlap repel each other along a line that is neither horizontal nor
\* vertical.
SymmetryWitness ==
  /\ Running
  /\ i >= 1
  /\ \E v \in DOMAIN np : \E o \in DOMAIN np \ {v} :
       /\ Apart(np, v, o)
       /\ dimensions(v) # dimensions(o)
       /\ CoulombRepulsion(np, v, o)[1] # 0
       /\ CoulombRepulsion(np, v, o)[2] # 0

\* the rest length of the spec for a pair whose centres are centres apart
\* and whose boundaries are distance apart
RestLength(centres, distance) ==
  Max2(minSpringLength * Scale, centres - distance)

\* the two boundary points of v and o are exactly one rest length apart
AtRestLength(positions, v, o) ==
  /\ Apart(positions, v, o)
  /\ Norm(Difference(DistanceVectorFrom(positions, v, o)))
       = RestLength(Norm(<<positions[o][1] - positions[v][1],
                           positions[o][2] - positions[v][2]>>),
                    Norm(Difference(DistanceVectorFrom(positions, v, o))))

\* the step works on exactly two vertices, v and o, joined by the one edge
TwoNodeGraph(v, o) ==
  /\ Running
  /\ v # o
  /\ DOMAIN np = {v, o}
  /\ edges \in {{<<v, o>>}, {<<o, v>>}}

\* C11 as the spec states it: in a graph of exactly two vertices joined by
\* one edge whose boundaries are one rest length apart, the net force the
\* step computes on each vertex is (0, 0) and the step moves neither vertex.
ZeroForceAtRest ==
  \A v \in Vertices : \A o \in Vertices :
    (TwoNodeGraph(v, o) /\ AtRestLength(np, v, o)) =>
      /\ v \in DOMAIN forces => forces[v] = <<0, 0>>
      /\ v \in DOMAIN newPositions => newPositions[v] = np[v]

\* C11 amended: in a graph of exactly two vertices joined by one edge whose
\* boundaries are one rest length apart, the spring term on each vertex is
\* (0, 0), the net force the step computes on it is the repulsion due to the
\* other vertex alone, and the step moves a vertex that is not fixed by
\* that repulsion.
SpringZeroAtRest ==
  \A v \in Vertices : \A o \in Vertices :
    (TwoNodeGraph(v, o) /\ AtRestLength(np, v, o)) =>
      /\ HookeAttraction(np, v, o) = <<0, 0>>
      /\ v \in DOMAIN forces => forces[v] = CoulombRepulsion(np, v, o)
      /\ v \in DOMAIN newPositions =>
           newPositions[v] =
             NewPosition(v, np[v], CoulombRepulsion(np, v, o))

\* C11 witness: the step has computed both forces of a two-vertex graph at
\* rest length and has moved one of the vertices by a force that is not zero.
RestLengthWitness ==
  \E v \in Vertices : \E o \in Vertices :
    /\ TwoNodeGraph(v, o)
    /\ AtRestLength(np, v, o)
    /\ DOMAIN forces = DOMAIN np
    /\ forces[v] # <<0, 0>>
    /\ v \in DOMAIN newPositions
    /\ newPositions[v] # np[v]

\* the component f of a force on a vertex does not pull along the component
\* c of the vector from its centre to the other centre
PushesAway(f, c) == f = 0 \/ (f < 0 /\ c > 0) \/ (f > 0 /\ c < 0)

\* both components of force f push away along the vector from vc to oc
Repels(f, vc, oc) ==
  /\ PushesAway(f[1], oc[1] - vc[1])
  /\ PushesAway(f[2], oc[2] - vc[2])

\* C14: for two vertices with distinct centres and a boundary distance that
\* is not zero, overlapping or not, each component of the repulsion on a
\* vertex is zero or of the sign opposite to the same component of the
\* vector from its centre to the centre of the other vertex.
RepulsionNeverAttracts ==
  Running =>
    \A v \in DOMAIN np : \A o \in DOMAIN np \ {v} :
      (np[v] # np[o] /\ ~CoulombRaises(np, v, o)) =>
        Repels(CoulombRepulsion(np, v, o), np[v], np[o])

\* C14 witness: two overlapping vertices with distinct centres, for which
\* the boundary vector is inverted, repel each other with a force that is
\* not zero.
OverlapRepelWitness ==
  /\ Running
  /\ \E v \in DOMAIN np : \E o \in DOMAIN np \ {v} :
       /\ np[v] # np[o]
       /\ ~CoulombRaises(np, v, o)
       /\ Overlap(np[v], np[o], DistanceVectorFrom(np, v, o))
       /\ CoulombRepulsion(np, v, o) # <<0, 0>>

\* ------------------------------------------------------------- scenario 1
\* Two 20x20 vertices at (0, 0) and (200, 0), one edge between them (in
\* either direction), nothing fixed, and the configuration of
\* ForceBasedLayout.__init__ and OneStepForceBasedLayout.__init__.
ScenarioInit ==
  /\ vertices = [v \in {"a", "b"} |->
                  IF v = "a" THEN ToFixed(<<0, 0>>) ELSE ToFixed(<<200, 0>>)]
  /\ dims = [v \in Vertices |-> <<20, 20>>]
  /\ edges \in {{<<"a", "b">>}, {<<"b", "a">>}}
  /\ fixed = {}
  /\ iterationNumber = DefaultIterationNumber
  /\ forceThreshold = DefaultForceThreshold
  /\ pc = "idle"
  /\ i = 0
  /\ np = EmptyMap
  /\ sf = 0
  /\ forces = EmptyMap
  /\ newPositions = EmptyMap
  /\ sumForces = 0
  /\ err = "none"
  /\ calls = <<>>
  /\ SetInit
  /\ TipInit

ScenarioSpec == ScenarioInit /\ [][Next]_vars

\* the boundary-to-boundary distance of a and b in positions
BoundaryDistance(positions) ==
  Norm(Difference(DistanceVectorFrom(positions, "a", "b")))

\* C12 as the spec states it: the positions the driver returns for scenario
\* 1 have a boundary-to-boundary distance of about minSpringLength (here:
\* within half of minSpringLength of it).
ScenarioSettlesAtMinSpringLength ==
  pc = "done" =>
    2 * Abs(BoundaryDistance(np) - minSpringLength * Scale)
      <= minSpringLength * Scale

\* the pull of the spring at boundary distance d and the repulsion at d
\* differ by at most two fixed-point units of force:
\* | springStiffness * (d - minSpringLength) - electricalRepulsion / d |
SpringBalancesRepulsion(d) ==
  Abs(springStiffness[1] * (d - minSpringLength * Scale) * d
        - electricalRepulsion * Scale * Scale * springStiffness[2])
    <= 2 * springStiffness[2] * d

\* C12 amended: the positions the driver returns for scenario 1 have the
\* boundary-to-boundary distance at which the pull of the spring balances
\* the repulsion (about 106.8, the root of 0.1 * (d - 60) = 500 / d), which
\* is larger than minSpringLength; the driver returns them before the
\* iteration budget is used up.
ScenarioSettlesAtBalance ==
  pc = "done" =>
    /\ SpringBalancesRepulsion(BoundaryDistance(np))
    /\ BoundaryDistance(np) > minSpringLength * Scale
    /\ i < iterationNumber

\* C12 witness: the driver has returned for scenario 1 after several steps
\* that moved both vertices towards each other.
ScenarioWitness ==
  /\ pc = "done"
  /\ i > 1
  /\ DOMAIN np = {"a", "b"}
  /\ np["a"][1] > vertices["a"][1]
  /\ np["b"][1] < vertices["b"][1]

\* ========================================================== ObservableSet
\* the layout engine is not called
LayoutIdle ==
  /\ vertices = EmptyMap
  /\ dims = [v \in Vertices |-> <<20, 20>>]
  /\ edges = {}
  /\ fixed = {}
  /\ iterationNumber = 0
  /\ forceThreshold = DefaultForceThreshold
  /\ pc = "idle"
  /\ i = 0
  /\ np = EmptyMap
  /\ sf = 0
  /\ forces = EmptyMap
  /\ newPositions = EmptyMap
  /\ sumForces = 0
  /\ err = "none"
  /\ calls = <<>>

\* the values put in the set, and the objects registered as observers
Elements == {1, 2}
Observers == {"o1", "o2"}
\* Largest number of entries of self._observers.
MaxObservers == 2

\* the names given to ObservableSet._wrap_methods
WrappedNames ==
  {"__ror__", "difference_update", "__isub__", "symmetric_difference",
   "__rsub__", "__and__", "__rand__", "intersection", "difference",
   "__iand__", "union", "__ixor__", "symmetric_difference_update", "__or__",
   "copy", "__rxor__", "intersection_update", "__xor__", "__ior__",
   "__sub__", "add", "remove", "clear", "discard", "update"}

\* the elements of the set s after the method name of the built-in set is
\* called with the elements T (for add, remove, discard and pop, T holds the
\* one element concerned); a method that returns a new set leaves s alone
SetMethod(name, s, T) ==
  CASE name \in {"add", "update", "__ior__"} -> s \cup T
    [] name \in {"remove", "discard", "pop", "difference_update", "__isub__"}
         -> s \ T
    [] name \in {"intersection_update", "__iand__"} -> s \cap T
    [] name \in {"symmetric_difference_update", "__ixor__"}
         -> (s \ T) \cup (T \ s)
    [] name = "clear" -> {}
    [] OTHER -> s

\* the built-in method raises KeyError: remove of an element that is not in
\* the set, pop from an empty set
SetRaises(name, s, T) ==
  \/ name = "remove" /\ T \cap s = {}
  \/ name = "pop" /\ s = {}

\* notify: observer.update(self) for each entry of self._observers, in order
NotifyAll(obs, s) == [k \in 1..Len(obs) |-> <<obs[k], s>>]

\* list.remove: obs without the first occurrence of x
RemoveFirst(obs, x) ==
  LET k == CHOOSE j \in 1..Len(obs) :
             obs[j] = x /\ \A h \in 1..(j - 1) : obs[h] # x
  IN  SubSeq(obs, 1, k - 1) \o SubSeq(obs, k + 1, Len(obs))

\* A call of the method name on the set.  For a name given to
\* _wrap_methods this is inner: old = ObservableSet(self), the method of the
\* built-in set, then self.notify() if old != self; an exception of the
\* built-in method leaves inner before the test.  Any other name is the
\* method of the built-in set itself.
Call(name, T) ==
  /\ lastCall' = [name |-> name, old |-> members,
                  raised |-> SetRaises(name, members, T)]
  /\ members' = IF SetRaises(name, members, T) THEN members
                ELSE SetMethod(name, members, T)
  /\ updates' = IF name \in WrappedNames /\ members' # members
                THEN NotifyAll(observers, members')
                ELSE <<>>
  /\ UNCHANGED observers
  /\ UNCHANGED <<layoutVars, tipVars>>

\* a call that leaves the elements alone
Untouched(name) ==
  /\ lastCall' = [name |-> name, old |-> members, raised |-> FALSE]
  /\ UNCHANGED members
  /\ UNCHANGED <<layoutVars, tipVars>>

\* register(observer): self._observers.append(observer)
register(observer) ==
  /\ Len(observers) < MaxObservers
  /\ observers' = Append(observers, observer)
  /\ updates' = <<>>
  /\ Untouched("register")

\* unregister(observer): self._observers.remove(observer), ValueError passed
unregister(observer) ==
  /\ observers' = IF \E k \in 1..Len(observers) : observers[k] = observer
                  THEN RemoveFirst(observers, observer)
                  ELSE observers
  /\ updates' = <<>>
  /\ Untouched("unregister")

\* notify()
notify ==
  /\ updates' = NotifyAll(observers, members)
  /\ UNCHANGED observers
  /\ Untouched("notify")

add(x) == Call("add", {x})
remove(x) == Call("remove", {x})
discard(x) == Call("discard", {x})
\* set.pop() removes and returns an arbitrary element
pop ==
  IF members = {} THEN Call("pop", {})
  ELSE \E x \in members : Call("pop", {x})
clear == Call("clear", {})
update(T) == Call("update", T)
\* difference_update, intersection_update, symmetric_difference_update
UpdateMethod(name, T) == Call(name, T)
\* s |= T, s -= T, s &= T, s ^= T
InPlaceOperator(name, T) == Call(name, T)
\* union(T): returns a new set
union(T) == Call("union", T)

SetSpecInit == LayoutIdle /\ SetInit /\ TipInit

SetNext ==
  \/ \E observer \in Observers : register(observer)
  \/ \E observer \in Observers : unregister(observer)
  \/ notify
  \/ \E x \in Elements : add(x)
  \/ \E x \in Elements : remove(x)
  \/ \E x \in Elements : discard(x)
  \/ pop
  \/ clear
  \/ \E T \in SUBSET Elements : update(T)
  \/ \E name \in {"difference_update", "intersection_update",
                   "symmetric_difference_update"} :
       \E T \in SUBSET Elements : UpdateMethod(name, T)
  \/ \E name \in {"__ior__", "__isub__", "__iand__", "__ixor__"} :
       \E T \in SUBSET Elements : InPlaceOperator(name, T)
  \/ \E T \in SUBSET Elements : union(T)

SetSpec == SetSpecInit /\ [][SetNext]_vars

\* C13: every operation that changes the elements of the set calls update
\* with the set on every observer registered at that moment, once per entry
\* of the list of observers and in its order.
NotifiesOnEveryChange ==
  members # lastCall.old => updates = NotifyAll(observers, members)

\* ========================================================== CanvasToolTip
\* Largest number of identifiers canvas.after returns.
MaxTimers == 8

\* _unschedule without after_cancel
UnscheduleNoCancel(p, id) == p

\* _unschedule: "if id_: self.canvas.after_cancel(id_)"; the callbacks Tk
\* holds afterwards (cancelling an identifier Tk no longer holds does
\* nothing)
Unschedule(p, id) == IF id # NoId THEN p \ {id} ELSE p

\* what a leave or a button press did, kept until the next enter
Left(before, window, timer) ==
  IF before = "window" \/ window THEN "window"
  ELSE IF before = "timer" \/ timer THEN "timer"
  ELSE "idle"

\* enter -> _schedule: _unschedule(), return if state is 'disabled',
\* self._id = self.canvas.after(delay, self._show)
enter ==
  /\ IF tipState = "disabled"
     THEN /\ timerId' = NoId
          /\ pending' = Unschedule(pending, timerId)
          /\ UNCHANGED afterCount
     ELSE /\ afterCount < MaxTimers
          /\ afterCount' = afterCount + 1
          /\ timerId' = afterCount + 1
          /\ pending' = Unschedule(pending, timerId) \cup {afterCount + 1}
  /\ sinceLeave' = "none"
  /\ UNCHANGED <<tipwindow, tipState>>
  /\ UNCHANGED <<layoutVars, setVars>>

\* leave(event), bound to <Leave> and to <ButtonPress>:
\* _unschedule(), _hide()
leave(event) ==
  /\ timerId' = NoId
  /\ pending' = Unschedule(pending, timerId)
  /\ tipwindow' = FALSE
  /\ sinceLeave' = Left(sinceLeave, tipwindow, timerId \in pending)
  /\ UNCHANGED <<afterCount, tipState>>
  /\ UNCHANGED <<layoutVars, setVars>>

\* Tk runs the callback t, which it then no longer holds -> _show: when the
\* state is 'disabled' _unschedule() and return, else create the window if
\* there is none (self._id is left as it is)
show(t) ==
  /\ t \in pending
  /\ IF tipState = "disabled"
     THEN /\ timerId' = NoId
          /\ pending' = Unschedule(pending \ {t}, timerId)
          /\ UNCHANGED tipwindow
     ELSE /\ pending' = pending \ {t}
          /\ tipwindow' = TRUE
          /\ UNCHANGED timerId
  /\ UNCHANGED <<afterCount, tipState, sinceLeave>>
  /\ UNCHANGED <<layoutVars, setVars>>

\* configure(state=...)
configure(state) ==
  /\ tipState' = state
  /\ UNCHANGED <<tipwindow, timerId, pending, afterCount, sinceLeave>>
  /\ UNCHANGED <<layoutVars, setVars>>

TipSpecInit == LayoutIdle /\ SetInit /\ TipInit

TipNext ==
  \/ enter
  \/ \E event \in {"<Leave>", "<ButtonPress>"} : leave(event)
  \/ \E t \in 1..MaxTimers : show(t)
  \/ \E state \in {"normal", "disabled"} : configure(state)

TipSpec == TipSpecInit /\ [][TipNext]_vars

\* C15: after any sequence of enter, leave, button press and timer expiry
\* (and changes of the state option) at most one callback that shows the
\* window is pending, and from a leave or button press until the next
\* enter there is no window and no pending callback.
TimerProtocol ==
  /\ Cardinality(pending) <= 1
  /\ sinceLeave # "none" => (~tipwindow /\ pending = {})

\* C15 witness: a timer expired and showed the window, a leave or button
\* press destroyed it, and before that an enter had replaced a pending timer
\* by a new one.
HiddenAfterLeaveWitness ==
  /\ sinceLeave = "window"
  /\ afterCount >= 2
  /\ ~tipwindow
  /\ pending = {}
  /\ timerId = NoId
====
